---- MODULE Spec2Model ----
(***************************************************************************)
(* tex2pdf: the command line tool (cli), the TinyTeX installer             *)
(* (install-latex.js) and the locator (find-latex), as a state machine.    *)
(*                                                                         *)
(* The vendored bin directory is a map from entry names to entries; the    *)
(* repair pass fixTinyTeXSymlinks, the locator and the installer read and  *)
(* write it.                                                               *)
(***************************************************************************)
EXTENDS Integers, Sequences, FiniteSets, TLC

VARIABLES
    bin,         \* the vendored bin directory: entry name -> entry
    binExists,   \* fs.existsSync(binPath)
    ext,         \* whether the one path outside the bin directory exists
    canSymlink,  \* fs.symlinkSync into the bin directory succeeds
    canCopy,     \* fs.copyFileSync into the bin directory succeeds
    hist,        \* one record per repair pass: the directory it found, the entries
                 \* it unlinked (fixedCount), the aliases it created, what it returned
    args,        \* process.argv.slice(2)
    which,       \* `which pdflatex || where pdflatex` finds a system pdflatex
    inputThere,  \* the file in.tex exists
    pc,          \* where the cli's main() is
    exitCode,    \* the cli's exit status (-1 while it runs)
    forced,      \* main() took the --install branch
    latexReady,  \* what ensureLaTeX() returned
    guidance,    \* the manual-installation guidance was printed by the cli
    spawns,      \* install scripts spawned
    engine,      \* the engine main() parsed from the arguments
    attempts,    \* one record per convertFile() call
    outFile,     \* the file at the output path
    firstError,  \* the message kind of the first attempt's failure
    child,       \* where the spawned install-latex.js is
    childExit,   \* its exit status (-1 while it runs)
    sysRuns,     \* what checkExistingLaTeX() found
    tmp,         \* the temporary archive file exists
    opening,     \* a write stream's open of the temporary file is pending
    redirects,   \* redirects followed by downloadFile
    netError,    \* the request emitted 'error'
    installRet   \* what installTinyTeX() returned

repairVars == <<bin, binExists, ext, canSymlink, canCopy, hist>>
cliVars == <<args, which, inputThere, pc, exitCode, forced, latexReady, guidance, spawns,
             engine, attempts, outFile, firstError>>
childVars == <<child, childExit, sysRuns, tmp, opening, redirects, netError, installRet>>
vars == <<repairVars, cliVars, childVars>>

----------------------------------------------------------------------------
(* Bounds *)

\* at most this many entries are in the bin directory initially
MaxPresent == 2

\* repair passes run in succession
MaxPasses == 2

----------------------------------------------------------------------------
(* The vendored bin directory *)

\* repair passes run so far
passes == Len(hist)

\* the four (underlying engine -> alias) pairs, in the order the code walks them
symlinks ==
    << [from |-> "pdftex", to |-> "pdflatex"],
       [from |-> "tex",    to |-> "latex"],
       [from |-> "luatex", to |-> "lualatex"],
       [from |-> "xetex",  to |-> "xelatex"] >>

\* the entry names of the bin directory, in one directory order
NameOrder ==
    << "pdftex", "pdflatex", "tex", "latex", "luatex", "lualatex",
       "xetex", "xelatex", "other" >>

Names == { NameOrder[i] : i \in 1..Len(NameOrder) }

\* "ext" is a path outside the bin directory that a link may point to
Paths == Names \cup {"ext"}

None == [kind |-> "none", to |-> "-"]
File == [kind |-> "file", to |-> "-"]
\* an entry lstat cannot inspect; unlinking it works ("bad") or fails ("stuck")
Bad == [kind |-> "bad", to |-> "-"]
Stuck == [kind |-> "stuck", to |-> "-"]
Link(t) == [kind |-> "link", to |-> t]

Reverse(s) == [i \in 1..Len(s) |-> s[Len(s) + 1 - i]]

\* the orders readdir may list the directory in
Orders == { NameOrder, Reverse(NameOrder) }

\* a chain longer than the number of names is a loop (ELOOP)
Fuel == Cardinality(Names)

RECURSIVE Resolves(_, _, _, _)
\* whether path p, links followed, ends at something that exists
Resolves(b, x, p, n) ==
    IF p = "ext" THEN x
    ELSE CASE b[p].kind = "file" -> TRUE
           [] b[p].kind = "link" -> n > 0 /\ Resolves(b, x, b[p].to, n - 1)
           [] OTHER -> FALSE

existsSync(b, x, p) == Resolves(b, x, p, Fuel)

isSymbolicLink(b, p) == b[p].kind = "link"

\* lstat throws on an entry that cannot be inspected
lstatThrows(b, p) == b[p].kind \in {"bad", "stuck"}

\* unlink throws on a stuck entry
unlinkThrows(b, p) == b[p].kind \in {"stuck", "none"}

\* FixEntry with the link's own target looked at instead of the end of its chain
FixEntryDirect(st, f) ==
    LET b == st.bin
        gone == IF b[f].to = "ext" THEN ~st.ext ELSE b[b[f].to].kind = "none"
    IN  IF lstatThrows(b, f)
        THEN IF unlinkThrows(b, f) THEN st
             ELSE [st EXCEPT !.bin[f] = None, !.deleted = @ + 1]
        ELSE IF isSymbolicLink(b, f) /\ gone
             THEN [st EXCEPT !.bin[f] = None, !.deleted = @ + 1]
             ELSE st

\* the first loop of fixTinyTeXSymlinks: one entry. Unlinking a link that lstat
\* could inspect succeeds; the failures modelled are those the code has a handler
\* for: lstat throwing, the defensive unlink throwing, symlinkSync and
\* copyFileSync throwing (canSymlink, canCopy: a property of the filesystem,
\* the same for every call of a run)
FixEntry(st, f) ==
    LET b == st.bin
    IN  IF lstatThrows(b, f)
        THEN IF unlinkThrows(b, f) THEN st
             ELSE [st EXCEPT !.bin[f] = None, !.deleted = @ + 1]
        ELSE IF isSymbolicLink(b, f) /\ ~existsSync(b, st.ext, f)
             THEN [st EXCEPT !.bin[f] = None, !.deleted = @ + 1]
             ELSE st

RECURSIVE FixEntries(_, _)
FixEntries(st, files) ==
    IF files = << >> THEN st
    ELSE FixEntries(FixEntry(st, Head(files)), Tail(files))

RECURSIVE FinalPath(_, _, _)
\* where a write through path p lands: the end of its chain of links
FinalPath(b, p, n) ==
    IF p = "ext" THEN "ext"
    ELSE IF b[p].kind = "link"
         THEN IF n > 0 THEN FinalPath(b, b[p].to, n - 1) ELSE "loop"
         ELSE p

\* fs.copyFileSync(fromPath, toPath): writes through a link at toPath
copyFileSync(st, to, cp) ==
    LET p == FinalPath(st.bin, to, Fuel)
    IN  IF ~cp \/ p = "loop" THEN st
        ELSE IF p = "ext" THEN [st EXCEPT !.ext = TRUE, !.created = @ + 1]
        ELSE IF st.bin[p].kind \in {"none", "file"}
             THEN [st EXCEPT !.bin[p] = File, !.created = @ + 1]
             ELSE st

\* FixAlias without the copy fallback
FixAliasNoCopy(st, pair, sl, cp) ==
    IF existsSync(st.bin, st.ext, pair.from) /\ ~existsSync(st.bin, st.ext, pair.to)
    THEN IF sl /\ st.bin[pair.to].kind = "none"
         THEN [st EXCEPT !.bin[pair.to] = Link(pair.from), !.created = @ + 1]
         ELSE st
    ELSE st

\* the second loop of fixTinyTeXSymlinks: one pair
FixAlias(st, pair, sl, cp) ==
    IF existsSync(st.bin, st.ext, pair.from) /\ ~existsSync(st.bin, st.ext, pair.to)
    THEN IF sl /\ st.bin[pair.to].kind = "none"
         THEN [st EXCEPT !.bin[pair.to] = Link(pair.from), !.created = @ + 1]
         ELSE copyFileSync(st, pair.to, cp)
    ELSE st

RECURSIVE FixAliases(_, _, _, _)
FixAliases(st, pairs, sl, cp) ==
    IF pairs = << >> THEN st
    ELSE FixAliases(FixAlias(st, Head(pairs), sl, cp), Tail(pairs), sl, cp)

\* fs.readdirSync(binPath), in directory order `order`
readdirSync(b, order) == SelectSeq(order, LAMBDA n : b[n].kind # "none")

\* fixTinyTeXSymlinks(): the directory after the pass, with its counts
fixTinyTeXSymlinks(b, x, dirExists, order, sl, cp) ==
    LET st0 == [bin |-> b, ext |-> x, deleted |-> 0, created |-> 0, ret |-> FALSE]
    IN  IF ~dirExists THEN st0
        ELSE LET st1 == FixEntries(st0, readdirSync(b, order))
                 st2 == FixAliases(st1, symlinks, sl, cp)
             IN  [st2 EXCEPT !.ret = TRUE]

----------------------------------------------------------------------------
(* Repair passes run in succession on an arbitrary bin directory *)

\* what a link of the initial directory may point to: an underlying engine, an
\* alias, a name of another pair, a name of no pair, a path outside the directory
LinkTargets == {"pdftex", "pdflatex", "xetex", "other", "ext"}

EntryKinds == {File, Bad, Stuck} \cup { Link(t) : t \in LinkTargets }

\* every bin directory with at most MaxPresent entries
InitBins ==
    UNION { { [n \in Names |-> IF n \in S THEN f[n] ELSE None] : f \in [S -> EntryKinds] }
            : S \in { T \in SUBSET Names : Cardinality(T) <= MaxPresent } }

\* the cli and the install script, not started
IdleCli ==
    /\ args = << >>
    /\ which = FALSE
    /\ inputThere = FALSE
    /\ pc = "idle"
    /\ exitCode = -1
    /\ forced = FALSE
    /\ latexReady = "unset"
    /\ guidance = FALSE
    /\ spawns = 0
    /\ engine = "unset"
    /\ attempts = << >>
    /\ outFile = [exists |-> FALSE, data |-> << >>]
    /\ firstError = "none"

IdleChild ==
    /\ child = "none"
    /\ childExit = -1
    /\ sysRuns = "unknown"
    /\ tmp = FALSE
    /\ opening = FALSE
    /\ redirects = 0
    /\ netError = FALSE
    /\ installRet = "none"

RepairInit ==
    /\ bin \in InitBins
    /\ binExists \in BOOLEAN
    /\ (~binExists => bin = [n \in Names |-> None])
    /\ ext = FALSE
    /\ canSymlink \in BOOLEAN
    /\ canCopy \in BOOLEAN
    /\ hist = << >>
    /\ IdleCli
    /\ IdleChild

\* a call of fixTinyTeXSymlinks() on the directory (b, x)
Repair(b, x, dirExists) ==
    \E order \in Orders :
      LET r == fixTinyTeXSymlinks(b, x, dirExists, order, canSymlink, canCopy)
      IN  /\ bin' = r.bin
          /\ ext' = r.ext
          /\ hist' = Append(hist, [bin |-> b, ext |-> x, deleted |-> r.deleted,
                                   created |-> r.created, ret |-> r.ret])

NoRepair == UNCHANGED <<bin, ext, hist>>

\* one call of fixTinyTeXSymlinks()
RepairPass ==
    /\ passes < MaxPasses
    /\ Repair(bin, ext, binExists)
    /\ UNCHANGED <<binExists, canSymlink, canCopy, cliVars, childVars>>

RepairNext == RepairPass

SpecRepair == RepairInit /\ [][RepairNext]_vars

----------------------------------------------------------------------------
(* The locator (find-latex) *)

\* findTinyTeX(): the vendored bin directory holds pdflatex
findTinyTeX(b, x) == existsSync(b, x, "pdflatex")

\* getLaTeXPath() !== null: a system pdflatex, else the vendored one
hasLaTeX(w, b, x) == w \/ findTinyTeX(b, x)

\* getEnginePath(engine) is null exactly when getLaTeXPath() is
getEnginePathIsNull(w, b, x) == ~hasLaTeX(w, b, x)

\* checkTinyTeXInstalled(): the vendored bin directory holds xelatex
checkTinyTeXInstalled(b, x) == existsSync(b, x, "xelatex")

----------------------------------------------------------------------------
(* The command line *)

\* at most this many command arguments
MaxArgs == 2

\* redirects one download follows in the model
MaxRedirects == 1

Tokens ==
    { "--help", "-h", "--install", "--engine=pdflatex", "--engine=xelatex",
      "--bogus", "in.tex", "missing.tex", "out.pdf" }

ArgLists == UNION { [1..n -> Tokens] : n \in 0..MaxArgs }

includes(a, t) == \E i \in 1..Len(a) : a[i] = t

\* arg.startsWith('--engine=')
startsWithEngine(t) == t \in {"--engine=pdflatex", "--engine=xelatex"}

\* arg.split('=')[1]
splitEngine(t) == IF t = "--engine=pdflatex" THEN "pdflatex" ELSE "xelatex"

\* arg.startsWith('--')
startsWithDashes(t) ==
    t \in {"--help", "--install", "--engine=pdflatex", "--engine=xelatex", "--bogus"}

\* path.join(parsed.dir, `${parsed.name}.pdf`)
pdfName(t) ==
    CASE t = "in.tex" -> "in.pdf"
      [] t = "missing.tex" -> "missing.pdf"
      [] t = "out.pdf" -> "out.pdf"
      [] OTHER -> "other.pdf"

\* the engine main() starts from when no --engine option is given
DefaultEngine == "xelatex"

RECURSIVE parseLoop(_, _, _)
\* the loop of main() over args[1..]: stops at the first unknown option
parseLoop(a, i, st) ==
    IF i > Len(a) THEN st
    ELSE IF startsWithEngine(a[i])
         THEN parseLoop(a, i + 1, [st EXCEPT !.engine = splitEngine(a[i])])
         ELSE IF startsWithDashes(a[i])
              THEN [st EXCEPT !.unknown = TRUE]
              ELSE IF st.outputFile = "-"
                   THEN parseLoop(a, i + 1, [st EXCEPT !.outputFile = a[i]])
                   ELSE parseLoop(a, i + 1, st)

\* what main() parses: the engine, the output path, whether it hit an unknown option
parseArgs(a) ==
    LET st == parseLoop(a, 2, [engine |-> DefaultEngine, outputFile |-> "-", unknown |-> FALSE])
    IN  IF st.outputFile = "-" /\ ~st.unknown
        THEN [st EXCEPT !.outputFile = pdfName(a[1])]
        ELSE st

\* fs.existsSync(inputPath)
inputExists(t, there) == t = "in.tex" /\ there

\* the guard of convertFile() left out
inputMissingNever(t, there) == FALSE

\* the guard of convertFile(): if (!fs.existsSync(inputPath))
inputMissing(t, there) == ~inputExists(t, there)

\* main() retries with xelatex
fallsBack(eng, kind) == eng = "pdflatex" /\ kind = "Font"

ErrorKinds == {"Font", "Command failed", "other"}

\* the bin directories a run of the cli starts from
Dir(S, L) ==
    [n \in Names |-> IF n \in S THEN File ELSE IF n \in DOMAIN L THEN Link(L[n]) ELSE None]

Engines == {"pdftex", "tex", "luatex", "xetex"}

NoLinks == [n \in {} |-> "-"]

\* what the archive holds: the engines, with or without a dangling script link
ArchiveBins ==
    { Dir(Engines, NoLinks), Dir(Engines, [n \in {"other"} |-> "ext"]) }

\* what an extraction that fails has written
PartialBins == { Dir({}, NoLinks), Dir({"xetex"}, NoLinks) }

CliInitBins ==
    { Dir({}, NoLinks),
      Dir({"xetex"}, [n \in {"xelatex"} |-> "xetex"]),
      Dir(Engines, NoLinks),
      Dir(Engines, [n \in {"pdflatex", "other"} |-> IF n = "other" THEN "ext" ELSE "pdftex"]) }

\* tar.extract: the archive's entries replace those of the same name
Overlay(b, a) == [n \in Names |-> IF a[n].kind # "none" THEN a[n] ELSE b[n]]

Init ==
    /\ bin \in CliInitBins
    /\ binExists \in BOOLEAN
    /\ (~binExists => bin = Dir({}, NoLinks))
    /\ ext = FALSE
    /\ canSymlink \in BOOLEAN
    /\ canCopy \in BOOLEAN
    /\ hist = << >>
    /\ args \in ArgLists
    /\ which \in BOOLEAN
    /\ inputThere = TRUE
    /\ pc = "start"
    /\ exitCode = -1
    /\ forced = FALSE
    /\ latexReady = "unset"
    /\ guidance = FALSE
    /\ spawns = 0
    /\ engine = "unset"
    /\ attempts = << >>
    /\ outFile = [exists |-> FALSE, data |-> << >>]
    /\ firstError = "none"
    /\ IdleChild

\* process.exit(code), or the end of main() with nothing left to run (code 0)
Exit(code) == pc' = "exited" /\ exitCode' = code

\* runInstallScript(): spawn('node', [installScript]); the spawn may fail
Spawn ==
    /\ spawns' = spawns + 1
    /\ \E ok \in BOOLEAN : child' = IF ok THEN "start" ELSE "spawnfail"
    /\ UNCHANGED <<childExit, sysRuns, tmp, opening, redirects, netError, installRet>>

\* main() up to its first await: help, --install, or ensureLaTeX()
MainStart ==
    /\ pc = "start"
    /\ IF Len(args) = 0 \/ includes(args, "--help") \/ includes(args, "-h")
       THEN /\ Exit(0)
            /\ NoRepair
            /\ UNCHANGED <<forced, latexReady, spawns, childVars>>
       ELSE IF includes(args, "--install")
       THEN /\ forced' = TRUE
            /\ pc' = "awaitInstall"
            /\ Spawn
            /\ NoRepair
            /\ UNCHANGED <<exitCode, latexReady>>
       ELSE IF hasLaTeX(which, bin, ext)
       THEN /\ Repair(bin, ext, binExists)
            /\ latexReady' = "true"
            /\ pc' = "ready"
            /\ UNCHANGED <<exitCode, forced, spawns, childVars>>
       ELSE /\ pc' = "awaitEnsure"
            /\ Spawn
            /\ NoRepair
            /\ UNCHANGED <<exitCode, forced, latexReady>>
    /\ UNCHANGED <<binExists, canSymlink, canCopy, args, which, inputThere, guidance,
                   engine, attempts, outFile, firstError>>

----------------------------------------------------------------------------
(* The install script (install-latex.js), spawned by the cli *)

\* the child ends: process.exit(code), or an uncaught exception (status 1)
ChildExit(code) == child' = "exited" /\ childExit' = code

\* an exception thrown inside an event handler, or an 'error' event nobody
\* listens to: installTinyTeX() never returns and the process dies
Crash == installRet' = "crashed" /\ ChildExit(1)

\* the catch block returning true
ReturnTrue ==
    /\ tmp' = FALSE
    /\ installRet' = "true"
    /\ ChildExit(0)

\* the catch block of installTinyTeXUnix / installTinyTeXWindows, then main():
\* the temporary file is unlinked if it exists, the function returns false and
\* the script exits 0 under npm_lifecycle_event=postinstall, else 1
ReturnFalse ==
    /\ tmp' = FALSE
    /\ installRet' = "false"
    /\ \E isPostinstall \in BOOLEAN : ChildExit(IF isPostinstall THEN 0 ELSE 1)

\* main() of install-latex.js up to its await, downloadFile() started
ChildMain ==
    /\ child = "start"
    /\ \E runs \in BOOLEAN :
         IF runs
         THEN /\ sysRuns' = "yes"
              /\ ChildExit(0)
              /\ NoRepair
              /\ UNCHANGED <<opening>>
         ELSE /\ sysRuns' = "no"
              /\ IF checkTinyTeXInstalled(bin, ext)
                 THEN /\ Repair(bin, ext, binExists)
                      /\ ChildExit(0)
                      /\ UNCHANGED <<opening>>
                 ELSE /\ opening' = TRUE
                      /\ child' = "download"
                      /\ NoRepair
                      /\ UNCHANGED <<childExit>>
    /\ UNCHANGED <<binExists, canSymlink, canCopy, cliVars, tmp, redirects, netError, installRet>>

\* the write stream's open of the temporary file completes, or fails (EACCES):
\* its 'error' has no listener before the response, and a listener that throws after
FileOpened ==
    /\ child \in {"download", "streaming"}
    /\ opening
    /\ \E ok \in BOOLEAN :
         IF ok
         THEN /\ tmp' = TRUE
              /\ opening' = FALSE
              /\ UNCHANGED <<child, childExit, installRet>>
         ELSE /\ Crash
              /\ UNCHANGED <<tmp, opening>>
    /\ UNCHANGED <<repairVars, cliVars, sysRuns, redirects, netError>>

\* the response callback of https.get
Response ==
    /\ child = "download"
    /\ \E status \in {200, 302, 404} :
         CASE status = 302 ->
                /\ redirects < MaxRedirects
                /\ IF tmp
                   THEN /\ tmp' = FALSE
                        /\ opening' = TRUE
                        /\ redirects' = redirects + 1
                        /\ UNCHANGED <<child, childExit, installRet>>
                   ELSE /\ Crash
                        /\ UNCHANGED <<tmp, opening, redirects>>
           [] status = 404 ->
                /\ ReturnFalse
                /\ UNCHANGED <<opening, redirects>>
           [] status = 200 ->
                /\ child' = "streaming"
                /\ UNCHANGED <<childExit, tmp, opening, redirects, installRet>>
    /\ UNCHANGED <<repairVars, cliVars, sysRuns, netError>>

\* the request's 'error' handler: fs.unlinkSync(dest) throws when the file is not there
RequestError ==
    /\ child \in {"download", "streaming"}
    /\ netError' = TRUE
    /\ IF tmp
       THEN ReturnFalse
       ELSE /\ Crash
            /\ UNCHANGED <<tmp>>
    /\ UNCHANGED <<repairVars, cliVars, sysRuns, opening, redirects>>

\* the write stream's 'error' handler, the file open (a failed write)
FileWriteError ==
    /\ child = "streaming"
    /\ tmp /\ ~opening
    /\ ReturnFalse
    /\ UNCHANGED <<repairVars, cliVars, sysRuns, opening, redirects, netError>>

\* the write stream's 'finish': downloadFile resolves, extraction starts
FileFinish ==
    /\ child = "streaming"
    /\ tmp /\ ~opening
    /\ child' = "extract"
    /\ UNCHANGED <<repairVars, cliVars, childExit, sysRuns, tmp, opening, redirects,
                   netError, installRet>>

\* the extraction ends: the archive is unlinked and the aliases repaired, or the
\* catch block runs on what a failed extraction left
ExtractDone ==
    /\ child = "extract"
    /\ \E ok \in BOOLEAN :
         IF ok
         THEN /\ \E a \in ArchiveBins : Repair(Overlay(bin, a), ext, TRUE)
              /\ binExists' = TRUE
              /\ tmp' = FALSE
              /\ installRet' = "true"
              /\ ChildExit(0)
         ELSE /\ \E p \in PartialBins :
                   /\ bin' = Overlay(bin, p)
                   /\ binExists' = (binExists \/ p # Dir({}, NoLinks))
              /\ UNCHANGED <<ext, hist>>
              /\ ReturnFalse
    /\ UNCHANGED <<canSymlink, canCopy, cliVars, sysRuns, opening, redirects, netError>>

----------------------------------------------------------------------------
(* The cli after the install script *)

\* the promise of runInstallScript() resolved: the child closed with code 0
resolved == child = "exited" /\ childExit = 0

\* the child's 'close' or 'error': main() or ensureLaTeX() resumes
ChildClosed ==
    /\ pc \in {"awaitInstall", "awaitEnsure"}
    /\ child \in {"exited", "spawnfail"}
    /\ IF pc = "awaitInstall"
       THEN /\ IF resolved
               THEN Exit(0)
               ELSE \E mode \in {"throw", "warn"} : Exit(IF mode = "throw" THEN 1 ELSE 0)
            /\ NoRepair
            /\ UNCHANGED <<latexReady, guidance>>
       ELSE IF resolved
            THEN /\ Repair(bin, ext, binExists)
                 /\ IF hasLaTeX(which, bin', ext')
                    THEN /\ latexReady' = "true"
                         /\ pc' = "ready"
                         /\ UNCHANGED <<exitCode>>
                    ELSE /\ latexReady' = "false"
                         /\ Exit(1)
                 /\ UNCHANGED <<guidance>>
            ELSE /\ guidance' = TRUE
                 /\ latexReady' = "false"
                 /\ Exit(1)
                 /\ NoRepair
    /\ UNCHANGED <<binExists, canSymlink, canCopy, args, which, inputThere, forced, spawns,
                   engine, attempts, outFile, firstError, childVars>>

\* createWriteStream opening the file for append
createWriteStreamAppend(f) == [exists |-> TRUE, data |-> f.data]

\* fs.createWriteStream(outputPath): the file is created, or truncated
createWriteStream(f) == [exists |-> TRUE, data |-> << >>]

\* convertFile(args[0], output, eng) up to its promise; f is the output file before
ConvertFile(eng, output, f) ==
    LET call == [engine |-> eng, output |-> output,
                 inputExisted |-> inputExists(args[1], inputThere),
                 invoked |-> TRUE, opened |-> TRUE]
    IN  IF inputMissing(args[1], inputThere)
        THEN /\ attempts' = Append(attempts, [call EXCEPT !.invoked = FALSE, !.opened = FALSE])
             /\ outFile' = f
             /\ Exit(1)
        ELSE IF getEnginePathIsNull(which, bin, ext)
        THEN /\ attempts' = Append(attempts, [call EXCEPT !.invoked = FALSE, !.opened = FALSE])
             /\ outFile' = f
             /\ Exit(1)
        ELSE /\ attempts' = Append(attempts, call)
             /\ outFile' = createWriteStream(f)
             /\ pc' = "awaitPdf"
             /\ UNCHANGED <<exitCode>>

\* main() after ensureLaTeX(): the arguments parsed, convertFile() called
MainConvert ==
    /\ pc = "ready"
    /\ LET p == parseArgs(args)
       IN  IF p.unknown
           THEN /\ Exit(1)
                /\ UNCHANGED <<engine, attempts, outFile>>
           ELSE /\ engine' = p.engine
                /\ ConvertFile(p.engine, p.outputFile, outFile)
    /\ UNCHANGED <<repairVars, args, which, inputThere, forced, latexReady, guidance, spawns,
                   firstError, childVars>>

\* the engine's stream emits 'error': the catch blocks of main(). The failed
\* attempt may have written part of its output to its write stream before
PdfError ==
    /\ pc = "awaitPdf"
    /\ \E kind \in ErrorKinds, partial \in BOOLEAN :
         LET cur == attempts[Len(attempts)]
             f == IF partial
                  THEN [outFile EXCEPT !.data = Append(@, [by |-> cur.engine, part |-> "partial"])]
                  ELSE outFile
         IN  IF Len(attempts) = 1
             THEN /\ firstError' = kind
                  /\ IF fallsBack(engine, kind)
                     THEN ConvertFile("xelatex", cur.output, f)
                     ELSE /\ Exit(1)
                          /\ outFile' = f
                          /\ UNCHANGED <<attempts>>
             ELSE /\ Exit(1)
                  /\ outFile' = f
                  /\ UNCHANGED <<attempts, firstError>>
    /\ UNCHANGED <<repairVars, args, which, inputThere, forced, latexReady, guidance, spawns,
                   engine, childVars>>

\* the output stream's 'finish': convertFile resolves, main() returns and the
\* process ends with status 0
OutputFinish ==
    /\ pc = "awaitPdf"
    /\ outFile' = [outFile EXCEPT !.data =
                     Append(@, [by |-> attempts[Len(attempts)].engine, part |-> "pdf"])]
    /\ Exit(0)
    /\ UNCHANGED <<repairVars, args, which, inputThere, forced, latexReady, guidance, spawns,
                   engine, attempts, firstError, childVars>>

\* the input file is removed while the engine runs
InputRemoved ==
    /\ pc = "awaitPdf"
    /\ inputThere
    /\ inputThere' = FALSE
    /\ UNCHANGED <<repairVars, args, which, pc, exitCode, forced, latexReady, guidance, spawns,
                   engine, attempts, outFile, firstError, childVars>>

Next ==
    \/ MainStart
    \/ ChildMain
    \/ FileOpened
    \/ Response
    \/ RequestError
    \/ FileWriteError
    \/ FileFinish
    \/ ExtractDone
    \/ ChildClosed
    \/ MainConvert
    \/ PdfError
    \/ OutputFinish
    \/ InputRemoved

Spec == Init /\ [][Next]_vars

----------------------------------------------------------------------------
(* Properties *)

\* a conversion run: no --help, -h or --install among the arguments
ConversionRun ==
    /\ Len(args) > 0
    /\ ~includes(args, "--help")
    /\ ~includes(args, "-h")
    /\ ~includes(args, "--install")

\* C1: run with --install, the cli exits with status 0 whatever the install
\* script did, also when it exits non-zero or cannot be spawned
C1_InstallAlwaysExitsZero ==
    (forced /\ pc = "exited") => exitCode = 0

\* C2: with an unknown -- option among the arguments of a conversion run, no
\* install script is spawned, no repair pass runs and no conversion starts, and
\* the exit status is non-zero
C2_UnknownFlagNoPartialExecution ==
    (ConversionRun /\ includes(args, "--bogus")) =>
        /\ spawns = 0
        /\ passes = 0
        /\ attempts = << >>
        /\ (pc = "exited" => exitCode # 0)

\* C3: a convertFile() call whose input path does not exist invokes no engine,
\* does not open the output path and ends the process with a non-zero status,
\* on the first attempt and on the fallback attempt
C3_MissingInputNeverConverted ==
    \A i \in 1..Len(attempts) :
        ~attempts[i].inputExisted =>
            /\ ~attempts[i].invoked
            /\ ~attempts[i].opened
            /\ i = Len(attempts)
            /\ pc = "exited"
            /\ exitCode # 0
            /\ (i = 1 => ~outFile.exists)

C3_Witness ==
    /\ Len(attempts) = 2
    /\ attempts[1].invoked
    /\ ~attempts[2].inputExisted
    /\ pc = "exited"

\* the last chunk of the output file is xelatex's finished pdf
xelatexSucceeded ==
    /\ outFile.data # << >>
    /\ outFile.data[Len(outFile.data)] = [by |-> "xelatex", part |-> "pdf"]

\* C4: with --engine=pdflatex and a first failure whose message contains "Font",
\* there is exactly one retry, with xelatex; when it succeeds the exit status is
\* 0 and the output file holds xelatex's output alone; when it fails the exit
\* status is non-zero and nothing more is tried
C4_FontFallbackOnce ==
    (engine = "pdflatex" /\ firstError = "Font") =>
        /\ Len(attempts) = 2
        /\ attempts[1].engine = "pdflatex"
        /\ attempts[2].engine = "xelatex"
        /\ (pc = "exited" =>
              IF xelatexSucceeded
              THEN /\ exitCode = 0
                   /\ outFile.data = << [by |-> "xelatex", part |-> "pdf"] >>
              ELSE exitCode # 0)

C4_Witness ==
    /\ engine = "pdflatex"
    /\ firstError = "Font"
    /\ pc = "exited"
    /\ exitCode = 0
    /\ xelatexSucceeded

\* C5: when the requested engine is the default engine and the conversion fails
\* with a font message, the conversion is retried once with another engine
\* before the cli gives up
C5_DefaultEngineFontRetry ==
    (pc = "exited" /\ engine = DefaultEngine /\ firstError = "Font") =>
        /\ Len(attempts) = 2
        /\ attempts[2].engine # DefaultEngine

\* the directory after repair pass i
After(i) ==
    IF i = Len(hist) THEN [bin |-> bin, ext |-> ext]
    ELSE [bin |-> hist[i + 1].bin, ext |-> hist[i + 1].ext]

NoBrokenLinks(b, x) == \A n \in Names : b[n].kind = "link" => existsSync(b, x, n)

AliasAfterPass(i, k, mustExist) ==
    LET from == symlinks[k].from
        to == symlinks[k].to
        b0 == hist[i].bin
        x0 == hist[i].ext
        a == After(i)
    IN  b0[to].kind = "none" =>
          IF existsSync(b0, x0, from) /\ mustExist
          THEN a.bin[to].kind # "none" /\ existsSync(a.bin, a.ext, to)
          ELSE a.bin[to].kind = "none"

C8_GuidanceWhenNoEngine ==
    (ConversionRun /\ latexReady = "false") =>
        /\ guidance
        /\ pc = "exited"
        /\ exitCode # 0

\* the input exists, there is no system LaTeX and no vendored install, and the
\* download failed on the network
C9_Scenario ==
    /\ ConversionRun
    /\ args[1] = "in.tex"
    /\ ~which
    /\ sysRuns = "no"
    /\ ~binExists
    /\ netError

\* C9: in that scenario the install reports failure, the cli exits with a
\* non-zero status and the output path is never created or opened
C9_FailedInstallNoPdf ==
    C9_Scenario =>
        /\ installRet \in {"false", "crashed"}
        /\ attempts = << >>
        /\ ~outFile.exists
        /\ pc \in {"awaitEnsure", "exited"}
        /\ (pc = "exited" => exitCode # 0)

C9_Witness ==
    /\ C9_Scenario
    /\ installRet = "false"
    /\ pc = "exited"
    /\ exitCode = 1

\* C10: a failure of the download or of the extraction ends with
\* installTinyTeX() returning false and the temporary archive gone, in every
\* order of the request's 'error' and the creation of the temporary file
C10_InstallFailureCaught ==
    (child = "exited" /\ installRet \notin {"none", "true"}) =>
        /\ installRet = "false"
        /\ ~tmp

====
